---- MODULE Spec2Model ----
(***************************************************************************)
(* Minesweeper (src/main.py): the game engine MinesweeperGame and the      *)
(* event handlers of MinesweeperGUI that drive it.                         *)
(*                                                                         *)
(* A Position is a pair <<row, col>>.  Python sets are TLA+ sets, the      *)
(* adjacency cache (a dict) is a function whose DOMAIN is its key set, and *)
(* cell_states (a defaultdict whose missing keys read HIDDEN) is a total   *)
(* function on the grid whose default value is "HIDDEN".                   *)
(***************************************************************************)
EXTENDS Integers, FiniteSets, Sequences, TLC

\* Bounds of the model: grids of at most MaxRows x MaxCols with at most
\* MaxCells cells, at most MaxMines configured mines, at most MaxFlags
\* flags placed by the player at any time.
MaxRows == 2
MaxCols == 5
MaxCells == 10
MaxMines == 1
MaxFlags == 1

VARIABLES
    rows, cols, total_mines,    \* MinesweeperGame.rows / cols / total_mines
    state,                      \* MinesweeperGame.state (GameState)
    mines, revealed, flags,     \* the three position sets
    cell_states,                \* MinesweeperGame.cell_states
    adjacent_cache,             \* MinesweeperGame.adjacent_cache
    start_time, elapsed_time,   \* 0, or 1 for a value taken from the clock
    timer_job,                  \* MinesweeperGUI.timer_job: 0 is None, else an after-id
    pending,                    \* after-ids of the tick callbacks Tk has scheduled
    last,                       \* the last call made: its name, argument, result, and
                                \* what held when it was made
    pc,                         \* "fill" while a reveal_cell call is inside its loop
    worklist,                   \* reveal_cell's worklist to_reveal
    fill_start,                 \* the number of revealed cells when the loop began
    fill_adds                   \* the number of revealed.add calls the loop has made

engine == <<state, mines, revealed, flags, cell_states, adjacent_cache,
            start_time, elapsed_time>>
config == <<rows, cols, total_mines>>
gui    == <<timer_job, pending>>
fill   == <<pc, worklist, fill_start, fill_adds>>
vars   == <<rows, cols, total_mines, state, mines, revealed, flags, cell_states,
            adjacent_cache, start_time, elapsed_time, timer_job, pending, last,
            pc, worklist, fill_start, fill_adds>>

\* GameState and CellState
GameState == {"READY", "PLAYING", "WON", "LOST"}
CellState == {"HIDDEN", "REVEALED", "FLAGGED", "QUESTIONED"}

Min(a, b) == IF a < b THEN a ELSE b

\* {Position(r, c) for r in range(max_row) for c in range(max_col)}
Grid(max_row, max_col) == (0 .. max_row - 1) \X (0 .. max_col - 1)

\* The (dr, dc) of Position.neighbors: dr, dc in (-1, 0, 1) with (dr or dc)
Offsets == { d \in {-1, 0, 1} \X {-1, 0, 1} : d[1] # 0 \/ d[2] # 0 }

\* Position.neighbors
Neighbors(pos, max_row, max_col) ==
    { <<pos[1] + d[1], pos[2] + d[2]>> :
        d \in { e \in Offsets : /\ 0 <= pos[1] + e[1] /\ pos[1] + e[1] < max_row
                                /\ 0 <= pos[2] + e[2] /\ pos[2] + e[2] < max_col } }

\* dict.get(pos, 0) on the adjacency cache
CacheGet(cache, pos) == IF pos \in DOMAIN cache THEN cache[pos] ELSE 0

\* The engine's mutable fields as one record, so that one call can be applied
\* to the result of another (the chord calls reveal_cell in a loop).
Game == [state |-> state, mines |-> mines, revealed |-> revealed, flags |-> flags,
         cell_states |-> cell_states, adjacent_cache |-> adjacent_cache,
         start_time |-> start_time, elapsed_time |-> elapsed_time]

\* MinesweeperGame.__init__ (the fields set after rows, cols, total_mines)
NewGame(r, c) ==
    [state |-> "READY", mines |-> {}, revealed |-> {}, flags |-> {},
     cell_states |-> [p \in Grid(r, c) |-> "HIDDEN"],
     adjacent_cache |-> <<>>, start_time |-> 0, elapsed_time |-> 0]

\* ResetGame without flags.clear()
ResetGameKeepsFlags(G) ==
    [G EXCEPT !.mines = {}, !.cell_states = [p \in DOMAIN G.cell_states |-> "HIDDEN"],
              !.revealed = {}, !.adjacent_cache = <<>>,
              !.state = "READY", !.start_time = 0, !.elapsed_time = 0]

\* MinesweeperGame.reset
ResetGame(G) ==
    [G EXCEPT !.mines = {}, !.cell_states = [p \in DOMAIN G.cell_states |-> "HIDDEN"],
              !.revealed = {}, !.flags = {}, !.adjacent_cache = <<>>,
              !.state = "READY", !.start_time = 0, !.elapsed_time = 0]


\* SafeZone with the neighbors left out
SafeZoneClickOnly(first_click) == {first_click}

\* initialize_mines: safe_zone = {first_click} | first_click.neighbors(rows, cols)
SafeZone(first_click) == {first_click} \cup Neighbors(first_click, rows, cols)

\* initialize_mines: available = all grid positions - safe_zone
Available(first_click) == Grid(rows, cols) \ SafeZone(first_click)

\* SampleSize with max for min
SampleSizeMax(first_click) ==
    IF total_mines > Cardinality(Available(first_click))
    THEN total_mines ELSE Cardinality(Available(first_click))

\* initialize_mines: min(self.total_mines, len(available))
SampleSize(first_click) == Min(total_mines, Cardinality(Available(first_click)))

\* initialize_mines: every set random.sample(list(available), k) can return
Samples(first_click) ==
    { S \in SUBSET Available(first_click) : Cardinality(S) = SampleSize(first_click) }

\* AdjacentCount with the position itself counted among its neighbors
AdjacentCountWithSelf(pos, mineSet) ==
    Cardinality((Neighbors(pos, rows, cols) \cup {pos}) \cap mineSet)

\* _cache_adjacent_counts: the count stored for one position
AdjacentCount(pos, mineSet) == Cardinality(Neighbors(pos, rows, cols) \cap mineSet)

\* MinesweeperGame._cache_adjacent_counts
CacheAdjacentCounts(G) ==
    [G EXCEPT !.adjacent_cache = [p \in Grid(rows, cols) |-> AdjacentCount(p, G.mines)]]

\* MinesweeperGame.initialize_mines, with the sample random.sample returned
InitializeMines(G, first_click, sample) ==
    [CacheAdjacentCounts([G EXCEPT !.mines = sample])
        EXCEPT !.state = "PLAYING", !.start_time = 1]

\* Expand without the test for a zero count
ExpandAlways(G, current) == (Neighbors(current, rows, cols) \ G.revealed) \ G.flags

\* Expand with the last column clipped off the neighbors
ExpandOffByOne(G, current) ==
    IF CacheGet(G.adjacent_cache, current) = 0
    THEN (Neighbors(current, rows, cols - 1) \ G.revealed) \ G.flags
    ELSE {}

\* reveal_cell: the neighbors a revealed position adds to the worklist
Expand(G, current) ==
    IF CacheGet(G.adjacent_cache, current) = 0
    THEN (Neighbors(current, rows, cols) \ G.revealed) \ G.flags
    ELSE {}

\* Pop that leaves the element in the worklist
PopKeeps(work, current) == work

\* reveal_cell: to_reveal.pop() takes current out of the worklist
Pop(work, current) == work \ {current}

\* reveal_cell: one pass of the while loop, for the element current that
\* set.pop() returned; adds is the number of revealed.add calls it made
FillOne(G, work, current) ==
    IF current \in G.revealed
    THEN [g |-> G, work |-> Pop(work, current), adds |-> 0]
    ELSE LET G1 == [G EXCEPT !.revealed = @ \cup {current},
                             !.cell_states[current] = "REVEALED"]
         IN  [g |-> G1, work |-> Pop(work, current) \cup Expand(G1, current),
              adds |-> 1]

\* reveal_cell: the while loop over the worklist to_reveal (set.pop() takes
\* an arbitrary element)
RECURSIVE FloodFill(_, _)
FloodFill(G, to_reveal) ==
    IF to_reveal = {} THEN G
    ELSE LET current == CHOOSE x \in to_reveal : TRUE
             rest    == to_reveal \ {current}
         IN  IF current \in G.revealed
             THEN FloodFill(G, rest)
             ELSE LET G1 == [G EXCEPT !.revealed = @ \cup {current},
                                      !.cell_states[current] = "REVEALED"]
                  IN  FloodFill(G1, rest \cup Expand(G1, current))

\* WinCondition with the mines left out of the count
WinConditionNoMines(G) == Cardinality(G.revealed) = rows * cols

\* reveal_cell: the win condition
WinCondition(G) ==
    Cardinality(G.revealed) + Cardinality(G.mines) = rows * cols

\* CheckWin without the flagging of the mines
CheckWinNoAutoFlag(G) ==
    IF WinCondition(G) THEN [G EXCEPT !.state = "WON", !.elapsed_time = 1] ELSE G

\* reveal_cell: the win check after the fill
CheckWin(G) ==
    IF WinCondition(G)
    THEN [G EXCEPT !.state = "WON", !.elapsed_time = 1, !.flags = G.mines]
    ELSE G

\* RevealSkipped without the test for a flag
RevealSkippedIgnoresFlags(G, pos) ==
    G.state \notin {"PLAYING", "READY"} \/ pos \in G.revealed

\* reveal_cell: the guard "game ended or cell already processed"
RevealSkipped(G, pos) ==
    \/ G.state \notin {"PLAYING", "READY"}
    \/ pos \in G.revealed
    \/ pos \in G.flags

\* MinesPending with no test of the game state
MinesPendingAlways(G) == TRUE

\* reveal_cell: mines are placed by the call made in state READY
MinesPending(G) == G.state = "READY"

\* MinesweeperGame.reveal_cell; sample is what random.sample returns if the
\* call places the mines.  The result is the engine after the call and the
\* value returned.
RevealCell(G, pos, sample) ==
    LET G0 == IF MinesPending(G) THEN InitializeMines(G, pos, sample) ELSE G
    IN  IF RevealSkipped(G0, pos)
        THEN [g |-> G0, ret |-> FALSE]
        ELSE IF pos \in G0.mines
        THEN [g |-> [G0 EXCEPT !.state = "LOST", !.elapsed_time = 1], ret |-> FALSE]
        ELSE [g |-> CheckWin(FloodFill(G0, {pos})), ret |-> TRUE]

\* ToggleSkipped without the test for a revealed cell
ToggleSkippedIgnoresRevealed(G, pos) == G.state # "PLAYING"

\* toggle_flag: the guard
ToggleSkipped(G, pos) == pos \in G.revealed \/ G.state # "PLAYING"

\* ToggleFlag that sets the flag whether or not it was set
ToggleFlagSetOnly(G, pos) ==
    IF ToggleSkipped(G, pos) THEN G
    ELSE [G EXCEPT !.flags = @ \cup {pos}, !.cell_states[pos] = "FLAGGED"]

\* MinesweeperGame.toggle_flag
ToggleFlag(G, pos) ==
    IF ToggleSkipped(G, pos) THEN G
    ELSE LET f == (G.flags \ {pos}) \cup ({pos} \ G.flags)
         IN  [G EXCEPT !.flags = f,
                       !.cell_states[pos] = IF pos \in f THEN "FLAGGED" ELSE "HIDDEN"]

\* auto_reveal_neighbors: all(self.reveal_cell(n) for n in hidden_neighbors),
\* for every order in which the set can be iterated; all() stops at the
\* first call that returns False.
RECURSIVE RevealAll(_, _)
RevealAll(G, hidden) ==
    IF hidden = {} THEN { [g |-> G, ret |-> TRUE] }
    ELSE UNION { LET r == RevealCell(G, n, {})
                 IN  IF r.ret THEN RevealAll(r.g, hidden \ {n}) ELSE { r }
                 : n \in hidden }

\* auto_reveal_neighbors: the guard
ChordSkipped(G, pos) == pos \notin G.revealed \/ G.state # "PLAYING"

\* auto_reveal_neighbors: len(flagged_neighbors) == adjacent_cache.get(pos, 0)
ChordMatches(G, pos) ==
    Cardinality(Neighbors(pos, rows, cols) \cap G.flags) = CacheGet(G.adjacent_cache, pos)

\* MinesweeperGame.auto_reveal_neighbors: the set of possible results
AutoRevealNeighbors(G, pos) ==
    IF ChordSkipped(G, pos) THEN { [g |-> G, ret |-> FALSE] }
    ELSE IF ChordMatches(G, pos)
    THEN RevealAll(G, (Neighbors(pos, rows, cols) \ G.revealed) \ G.flags)
    ELSE { [g |-> G, ret |-> FALSE] }


(***************************************************************************)
(* The state machine.                                                      *)
(***************************************************************************)

\* The variable last observes the calls; it is no field of the program.
\* A position that is no cell of any grid, for calls that take none
NoPos == <<-1, -1>>

\* What held of the engine and of pos when a call was made
Pre(pos) ==
    [state    |-> state,
     revealed |-> pos \in revealed,
     flagged  |-> pos \in flags]

Call(op, pos, ret) == [op |-> op, pos |-> pos, ret |-> ret, pre |-> Pre(pos)]

\* Assign the engine's fields from a Game record
SetGame(G) ==
    /\ state' = G.state
    /\ mines' = G.mines
    /\ revealed' = G.revealed
    /\ flags' = G.flags
    /\ cell_states' = G.cell_states
    /\ adjacent_cache' = G.adjacent_cache
    /\ start_time' = G.start_time
    /\ elapsed_time' = G.elapsed_time

\* The (rows, cols, mines) an engine is constructed with: DIFFICULTY_PRESETS
\* and the custom values of MinesweeperGame.__init__, within the bounds
Configs ==
    { c \in (1 .. MaxRows) \X (1 .. MaxCols) \X (0 .. MaxMines) : c[1] * c[2] <= MaxCells }

\* MinesweeperGame.__init__, with no GUI timer
Init ==
    /\ \E c \in Configs :
         /\ rows = c[1]
         /\ cols = c[2]
         /\ total_mines = c[3]
         /\ state = "READY"
         /\ mines = {}
         /\ revealed = {}
         /\ flags = {}
         /\ cell_states = [p \in Grid(c[1], c[2]) |-> "HIDDEN"]
         /\ adjacent_cache = <<>>
         /\ start_time = 0
         /\ elapsed_time = 0
    /\ timer_job = 0
    /\ pending = {}
    /\ last = [op |-> "init", pos |-> NoPos, ret |-> FALSE,
               pre |-> [state |-> "READY", revealed |-> FALSE, flagged |-> FALSE]]
    /\ pc = "idle"
    /\ worklist = {}
    /\ fill_start = 0
    /\ fill_adds = 0

\* The samples a reveal_cell call may draw: those of initialize_mines if the
\* call places the mines, none otherwise
Draws(pos) == IF state = "READY" THEN Samples(pos) ELSE { {} }

\* The player does not hold more than MaxFlags flags (a bound of the model)
FlagAllowed(pos) ==
    ToggleSkipped(Game, pos) \/ pos \in flags \/ Cardinality(flags) < MaxFlags

---------------------------------------------------------------------------
\* The engine called directly.

\* game.reveal_cell(pos)
DoRevealCell(pos) ==
    \E sample \in Draws(pos) :
        LET r == RevealCell(Game, pos, sample)
        IN  /\ SetGame(r.g)
            /\ UNCHANGED fill
            /\ last' = Call("reveal_cell", pos, r.ret)
            /\ UNCHANGED <<config, gui>>

\* game.toggle_flag(pos)
DoToggleFlag(pos) ==
    /\ FlagAllowed(pos)
    /\ SetGame(ToggleFlag(Game, pos))
    /\ UNCHANGED fill
    /\ last' = Call("toggle_flag", pos, FALSE)
    /\ UNCHANGED <<config, gui>>

\* game.auto_reveal_neighbors(pos)
DoAutoRevealNeighbors(pos) ==
    \E r \in AutoRevealNeighbors(Game, pos) :
        /\ SetGame(r.g)
        /\ UNCHANGED fill
        /\ last' = Call("auto_reveal_neighbors", pos, r.ret)
        /\ UNCHANGED <<config, gui>>

\* game.reset()
DoReset ==
    /\ SetGame(ResetGame(Game))
    /\ UNCHANGED fill
    /\ last' = Call("reset", NoPos, FALSE)
    /\ UNCHANGED <<config, gui>>

---------------------------------------------------------------------------
\* The engine driven by the handlers of MinesweeperGUI.

\* The id Tk's after() returns: one it has not handed out before.  The id is
\* always stored in timer_job, replacing the one held there, so the least id
\* that is not scheduled stands for it
NewId(sched) == CHOOSE i \in 1 .. Cardinality(sched) + 1 : i \notin sched

\* if self.timer_job: self.root.after_cancel(self.timer_job)
CancelTimer(job, sched) == IF job # 0 THEN sched \ {job} ELSE sched

\* _start_timer's tick(): reschedules itself while the game is PLAYING.  The
\* result is the new timer_job and the new set of scheduled callbacks.
TickBody(gameState, job, sched) ==
    IF gameState = "PLAYING"
    THEN [job |-> NewId(sched), sched |-> sched \cup {NewId(sched)}]
    ELSE [job |-> job, sched |-> sched]

\* _update_board: redraws, and calls _game_won (which cancels the timer) if
\* the state is WON
UpdateBoard(gameState, job, sched) ==
    IF gameState = "WON" THEN CancelTimer(job, sched) ELSE sched

\* _game_over: forces the state to LOST (the handlers cancel the timer with
\* CancelTimer)
GameOver(G) == [G EXCEPT !.state = "LOST"]

\* LeftClickHandled with no test of the game state
LeftClickHandledAlways(gameState) == TRUE

\* _on_left_click: the handler acts only while the game is PLAYING or READY
LeftClickHandled(gameState) == gameState \in {"PLAYING", "READY"}

\* StartsTimer with no test of timer_job
StartsTimerAlways(gameState, job) == gameState = "PLAYING"

\* _on_left_click: the timer is started after a reveal that leaves the game
\* PLAYING, unless timer_job is set
StartsTimer(gameState, job) == gameState = "PLAYING" /\ job = 0

\* MinesweeperGUI._on_left_click
OnLeftClick(pos) ==
    /\ UNCHANGED fill
    /\ last' = Call("left_click", pos, FALSE)
    /\ UNCHANGED config
    /\ IF LeftClickHandled(state)
       THEN \E sample \in Draws(pos) :
              LET r == RevealCell(Game, pos, sample)
              IN  IF r.ret
                  THEN LET sched == UpdateBoard(r.g.state, timer_job, pending)
                           t == IF StartsTimer(r.g.state, timer_job)
                                THEN TickBody(r.g.state, timer_job, sched)
                                ELSE [job |-> timer_job, sched |-> sched]
                       IN  /\ SetGame(r.g)
                           /\ timer_job' = t.job
                           /\ pending' = t.sched
                  ELSE /\ SetGame(GameOver(r.g))
                       /\ pending' = CancelTimer(timer_job, pending)
                       /\ UNCHANGED timer_job
       ELSE UNCHANGED <<engine, gui>>

\* MinesweeperGUI._on_right_click
OnRightClick(pos) ==
    /\ FlagAllowed(pos)
    /\ SetGame(ToggleFlag(Game, pos))
    /\ UNCHANGED fill
    /\ last' = Call("right_click", pos, FALSE)
    /\ UNCHANGED <<config, gui>>

\* MinesweeperGUI._on_double_click
OnDoubleClick(pos) ==
    \E r \in AutoRevealNeighbors(Game, pos) :
        /\ UNCHANGED fill
        /\ last' = Call("double_click", pos, r.ret)
        /\ UNCHANGED <<config, timer_job>>
        /\ IF r.ret
           THEN /\ SetGame(r.g)
                /\ pending' = UpdateBoard(r.g.state, timer_job, pending)
           ELSE IF r.g.state = "LOST"
           THEN /\ SetGame(GameOver(r.g))
                /\ pending' = CancelTimer(timer_job, pending)
           ELSE /\ SetGame(r.g)
                /\ UNCHANGED pending

\* MinesweeperGUI.new_game() from the face button: resets the engine
NewGameReset ==
    /\ SetGame(ResetGame(Game))
    /\ pending' = CancelTimer(timer_job, pending)
    /\ timer_job' = 0
    /\ UNCHANGED fill
    /\ last' = Call("new_game", NoPos, FALSE)
    /\ UNCHANGED config

\* DIFFICULTY_PRESETS: the boards the GUI constructs its engine with.  The
\* largest boards within the bounds, with the most mines, stand for them.
Presets == { c \in Configs : c[3] = MaxMines /\ c[1] * c[2] >= MaxCells - 2 }

\* MinesweeperGUI.new_game(difficulty) from the menu: constructs a new engine
NewGameDifficulty(c) ==
    /\ rows' = c[1]
    /\ cols' = c[2]
    /\ total_mines' = c[3]
    /\ SetGame(NewGame(c[1], c[2]))
    /\ pending' = CancelTimer(timer_job, pending)
    /\ timer_job' = 0
    /\ UNCHANGED fill
    /\ last' = Call("new_game", NoPos, FALSE)

\* Tk runs the scheduled callback tick
Tick(id) ==
    /\ id \in pending
    /\ LET t == TickBody(state, timer_job, pending \ {id})
       IN  /\ timer_job' = t.job
           /\ pending' = t.sched
    /\ UNCHANGED fill
    /\ last' = Call("tick", NoPos, FALSE)
    /\ UNCHANGED <<config, engine>>

GUINext ==
    \/ \E pos \in Grid(rows, cols) : OnLeftClick(pos)
    \/ \E pos \in Grid(rows, cols) : OnRightClick(pos)
    \/ \E pos \in Grid(rows, cols) : OnDoubleClick(pos)
    \/ NewGameReset
    \/ \E c \in Presets : NewGameDifficulty(c)
    \/ \E id \in pending : Tick(id)

\* MinesweeperGUI.__init__: new_game on a preset
GUIInit == Init /\ <<rows, cols, total_mines>> \in Presets

GUISpec == GUIInit /\ [][GUINext]_vars

---------------------------------------------------------------------------
Next ==
    \/ \E pos \in Grid(rows, cols) : DoRevealCell(pos)
    \/ \E pos \in Grid(rows, cols) : DoToggleFlag(pos)
    \/ \E pos \in Grid(rows, cols) : DoAutoRevealNeighbors(pos)
    \/ DoReset

Spec == Init /\ [][Next]_vars

---------------------------------------------------------------------------
\* reveal_cell taken one pass of its loop at a time, so that set.pop() can
\* return any element of the worklist.

\* reveal_cell up to the loop: the placement, the guard and the mine test
BeginReveal(pos) ==
    /\ pc = "idle"
    /\ \E sample \in Draws(pos) :
         LET G0 == IF MinesPending(Game) THEN InitializeMines(Game, pos, sample)
                   ELSE Game
         IN  IF RevealSkipped(G0, pos) \/ pos \in G0.mines
             THEN /\ SetGame(RevealCell(Game, pos, sample).g)
                  /\ UNCHANGED fill
             ELSE /\ SetGame(G0)
                  /\ pc' = "fill"
                  /\ worklist' = {pos}
                  /\ fill_start' = Cardinality(G0.revealed)
                  /\ fill_adds' = 0
    /\ UNCHANGED <<config, gui, last>>

\* reveal_cell: one pass of the loop, on any element of the worklist
FillStep ==
    /\ pc = "fill"
    /\ \E current \in worklist :
         LET r == FillOne(Game, worklist, current)
         IN  /\ SetGame(r.g)
             /\ worklist' = r.work
             /\ fill_adds' = fill_adds + r.adds
    /\ UNCHANGED <<config, gui, last, pc, fill_start>>

\* reveal_cell: the loop ends on an empty worklist; the win check follows
EndReveal ==
    /\ pc = "fill"
    /\ worklist = {}
    /\ SetGame(CheckWin(Game))
    /\ pc' = "idle"
    /\ UNCHANGED <<config, gui, last, worklist, fill_start, fill_adds>>

\* game.toggle_flag(pos) between two reveal_cell calls
FillToggleFlag(pos) ==
    /\ pc = "idle"
    /\ FlagAllowed(pos)
    /\ SetGame(ToggleFlag(Game, pos))
    /\ UNCHANGED <<config, gui, last, fill>>

\* game.reset() between two reveal_cell calls
FillReset ==
    /\ pc = "idle"
    /\ SetGame(ResetGame(Game))
    /\ UNCHANGED <<config, gui, last, fill>>

FillNext ==
    \/ \E pos \in Grid(rows, cols) : BeginReveal(pos)
    \/ FillStep
    \/ EndReveal
    \/ \E pos \in Grid(rows, cols) : FillToggleFlag(pos)
    \/ FillReset

\* A call that has entered its loop runs on: the loop and the return are not
\* interrupted
FillSpec == Init /\ [][FillNext]_vars /\ WF_vars(FillStep) /\ WF_vars(EndReveal)

---------------------------------------------------------------------------
(***************************************************************************)
(* The properties.  They speak of the board in terms that do not go        *)
(* through the engine's own helpers: two cells touch when they differ and  *)
(* are at most one row and one column apart, and the number of a cell is   *)
(* the number of mines that touch it.                                      *)
(***************************************************************************)

Abs(x) == IF x < 0 THEN -x ELSE x

Touches(p, q) == p # q /\ Abs(p[1] - q[1]) <= 1 /\ Abs(p[2] - q[2]) <= 1

Cells == Grid(rows, cols)

Around(p) == { q \in Cells : Touches(p, q) }

\* The number of a cell on a board whose mines are M
MineNumber(p, M) == Cardinality({ m \in M : Touches(p, m) })

\* The zero-numbered cells linked to the cells of S by chains of touching
\* zero-numbered cells that avoid the cells of blocked
RECURSIVE ZeroRegion(_, _, _)
ZeroRegion(S, blocked, M) ==
    LET more == { q \in Cells \ (S \cup blocked) :
                    MineNumber(q, M) = 0 /\ \E p \in S : Touches(p, q) }
    IN  IF more = {} THEN S ELSE ZeroRegion(S \cup more, blocked, M)

\* A zero region and the cells around it, apart from the cells of blocked
RegionAndBorder(p, blocked, M) ==
    LET region == ZeroRegion({p}, blocked, M)
    IN  region \cup ((UNION { Around(q) : q \in region }) \ blocked)

FirstReveal == last.op = "reveal_cell" /\ last.pre.state = "READY"

\* C1: after the first reveal_cell(p) of a session no mine is on p or on a
\* cell touching p, the call has returned true and the game is not lost.
SafeFirstClick ==
    FirstReveal =>
        /\ \A m \in mines : m # last.pos /\ ~Touches(m, last.pos)
        /\ last.ret
        /\ state # "LOST"

SafeFirstClickWitness == FirstReveal /\ mines # {} /\ state = "PLAYING"

\* C2: a left click on a revealed or flagged cell while the game is PLAYING
\* leaves the game PLAYING and the revealed, flagged and mine sets as they
\* were.
LeftClickOnProcessedCellIsNoOp ==
    [][ ( /\ last'.op = "left_click"
          /\ state = "PLAYING"
          /\ last'.pos \in revealed \cup flags )
        => ( state' = "PLAYING" /\ UNCHANGED <<revealed, flags, mines>> ) ]_vars

\* The chord of C3 and C4: auto_reveal_neighbors called in state PLAYING on a
\* revealed cell with as many flags around it as its cached count
ChordCalled ==
    /\ last'.op = "auto_reveal_neighbors"
    /\ state = "PLAYING"
    /\ last'.pos \in revealed
    /\ Cardinality(Around(last'.pos) \cap flags) = CacheGet(adjacent_cache, last'.pos)

\* C3: a chord that returns false has hit a mine and has left the game LOST.
ChordFailsOnlyOnMine ==
    [][ (ChordCalled /\ ~last'.ret) => state' = "LOST" ]_vars

\* C4: a chord whose flags are exactly the mines around the cell leaves every
\* unflagged cell around it revealed, and the game not lost.
CorrectChordRevealsAll ==
    [][ (ChordCalled /\ Around(last'.pos) \cap flags = Around(last'.pos) \cap mines)
        => ( /\ Around(last'.pos) \ flags' \subseteq revealed'
             /\ state' # "LOST" ) ]_vars

\* The reveal of C5: reveal_cell called in state READY or PLAYING on a hidden,
\* unflagged cell that is no mine and whose number is zero
ZeroRevealCalled ==
    /\ last'.op = "reveal_cell"
    /\ state \in {"READY", "PLAYING"}
    /\ last'.pos \notin revealed \cup flags
    /\ last'.pos \notin mines'
    /\ MineNumber(last'.pos, mines') = 0

\* C5 as claimed: revealing a zero cell reveals its whole 8-connected region
\* of zero cells and every cell around that region.
FloodFillRevealsRegion ==
    [][ ZeroRevealCalled => RegionAndBorder(last'.pos, {}, mines') \subseteq revealed' ]_vars

\* C5 amended: revealing a zero cell reveals every zero cell linked to it
\* through zero cells that were hidden and unflagged at the call, and every
\* cell around those that was unflagged at the call.
FloodFillRevealsUnflaggedRegion ==
    [][ ZeroRevealCalled =>
          RegionAndBorder(last'.pos, flags \cup revealed, mines')
              \subseteq revealed' ]_vars

\* A reveal of a zero cell whose region a wrong flag has cut short
FloodFillWitness ==
    /\ last.op = "reveal_cell"
    /\ last.pre.state = "PLAYING"
    /\ last.ret
    /\ state = "PLAYING"
    /\ MineNumber(last.pos, mines) = 0
    /\ Cardinality(ZeroRegion({last.pos}, flags, mines)) > 1
    /\ ~(RegionAndBorder(last.pos, {}, mines) \subseteq revealed)

\* C6: the game is WON exactly when revealed cells plus mines are the grid.
WinExactlyWhenAllSafeRevealed ==
    (state = "WON") <=> (Cardinality(revealed) + Cardinality(mines) = rows * cols)

WinWitness == state = "WON" /\ mines # {} /\ Cardinality(revealed) > 1

\* C7: but for reset and new game, no call takes the game from PLAYING back
\* to READY, or out of WON or LOST.
StateOnlyMovesForward ==
    last.op \notin {"init", "reset", "new_game"} =>
        /\ last.pre.state = "PLAYING" => state # "READY"
        /\ last.pre.state \in {"WON", "LOST"} => state = last.pre.state

\* A left click on a hidden, unflagged cell of a game already won or lost
StateOnlyMovesForwardWitness ==
    /\ last.op = "left_click"
    /\ last.pre.state \in {"WON", "LOST"}
    /\ ~last.pre.revealed /\ ~last.pre.flagged

\* C8: no cell is both flagged and revealed.
FlagsAndRevealedDisjoint == flags \cap revealed = {}

FlagsAndRevealedWitness ==
    state = "WON" /\ flags # {} /\ last.op = "reveal_cell" /\ last.pre.flagged = FALSE

\* C9: the first reveal places min(total_mines, rows*cols - |safe zone|)
\* mines, the safe zone being the clicked cell and the cells around it.
MinesPlacedCount ==
    FirstReveal =>
        Cardinality(mines)
            = Min(total_mines, rows * cols - Cardinality({last.pos} \cup Around(last.pos)))

MinesPlacedWitness == FirstReveal /\ Cardinality(mines) < total_mines

\* The calls of C10 that the engine skips
SkippedCall ==
    \/ /\ last'.op = "reveal_cell"
       /\ last'.pos \in revealed \cup flags \/ state \in {"WON", "LOST"}
    \/ /\ last'.op = "toggle_flag"
       /\ last'.pos \in revealed \/ state # "PLAYING"
    \/ /\ last'.op = "auto_reveal_neighbors"
       /\ last'.pos \notin revealed \/ state # "PLAYING"

\* C10: a skipped call returns false (reveal_cell, auto_reveal_neighbors) and
\* leaves the state, the three sets and the adjacency cache as they were.
SkippedCallsChangeNothing ==
    [][ SkippedCall =>
          /\ last'.op # "toggle_flag" => ~last'.ret
          /\ UNCHANGED <<state, revealed, flags, mines, adjacent_cache>> ]_vars

SkippedCallWitness ==
    /\ last.op = "reveal_cell"
    /\ last.pre.state = "PLAYING"
    /\ last.pre.flagged
    /\ ~last.ret


\* C11: in a PLAYING game, toggle_flag called twice in a row on a hidden
\* cell leaves the flags and the state of the cell as they were, and never
\* changes the revealed cells, the mines or the game state.
ToggleTwiceRestores ==
    \A pos \in Cells :
        (state = "PLAYING" /\ pos \notin revealed) =>
            LET once  == ToggleFlag(Game, pos)
                twice == ToggleFlag(once, pos)
            IN  /\ (pos \in once.flags) # (pos \in flags)
                /\ twice.flags = flags
                /\ twice.cell_states[pos] = cell_states[pos]
                /\ \A G \in {once, twice} :
                     /\ G.revealed = revealed
                     /\ G.mines = mines
                     /\ G.state = state

\* The second of two toggle_flag calls on a cell, which takes the flag off
ToggleTwiceWitness ==
    /\ last.op = "toggle_flag"
    /\ last.pre.state = "PLAYING"
    /\ last.pre.flagged
    /\ last.pos \notin flags
    /\ cell_states[last.pos] = "HIDDEN"

\* C12: reset() leaves the game READY with no mines, revealed cells or flags,
\* an empty adjacency cache and zeroed timers, and keeps rows, cols and the
\* configured mine count; the next reveal_cell places the mines again.
ResetClearsSession ==
    [][ /\ last'.op = "reset" =>
              /\ state' = "READY"
              /\ mines' = {} /\ revealed' = {} /\ flags' = {}
              /\ DOMAIN adjacent_cache' = {}
              /\ \A p \in Cells : cell_states'[p] = "HIDDEN"
              /\ start_time' = 0 /\ elapsed_time' = 0
              /\ UNCHANGED <<rows, cols, total_mines>>
        /\ (last.op = "reset" /\ last'.op = "reveal_cell") =>
              /\ state' \in {"PLAYING", "WON"}
              /\ DOMAIN adjacent_cache' = Cells
              /\ Cardinality(mines')
                   = Min(total_mines,
                         rows * cols - Cardinality({last'.pos} \cup Around(last'.pos)))
      ]_vars

\* A reset of a lost game that had flags and revealed cells
ResetWitness ==
    last.op = "reset" /\ last.pre.state = "LOST" /\ state = "READY"

\* C13: no mines are placed while the game is READY, the first reveal_cell
\* places them and fills the adjacency cache, and from then on no
\* reveal_cell, toggle_flag or auto_reveal_neighbors call changes the mines
\* or the cache.
MinesPlacedOnce ==
    [][ /\ state = "READY" => (mines = {} /\ DOMAIN adjacent_cache = {})
        /\ (state = "READY" /\ last'.op = "reveal_cell") =>
              (state' # "READY" /\ DOMAIN adjacent_cache' = Cells)
        /\ ( /\ state # "READY"
             /\ last'.op \in {"reveal_cell", "toggle_flag", "auto_reveal_neighbors"} )
              => UNCHANGED <<mines, adjacent_cache>>
      ]_vars

\* A later reveal_cell that revealed cells on a board with mines
MinesPlacedOnceWitness ==
    /\ last.op = "reveal_cell"
    /\ last.pre.state = "PLAYING"
    /\ last.ret
    /\ mines # {}

\* C14: in a WON game the flags are exactly the mines.
WonFlagsAreMines == state = "WON" => flags = mines

\* A game won by a chord, on a board with mines
WonFlagsWitness ==
    state = "WON" /\ mines # {} /\ last.op = "auto_reveal_neighbors"

\* C17: once the game has left READY, the adjacency cache has an entry for
\* every cell, and the entry is the number of mines touching the cell.
CacheIsMineNumber ==
    state # "READY" =>
        /\ DOMAIN adjacent_cache = Cells
        /\ Cardinality(Cells) = rows * cols
        /\ \A p \in Cells :
             /\ adjacent_cache[p] = MineNumber(p, mines)
             /\ adjacent_cache[p] \in 0 .. 8

\* A board in play with a numbered cell, a zero cell, and a mine
CacheWitness ==
    /\ state = "PLAYING"
    /\ \E p, q \in Cells \ mines : adjacent_cache[p] > 0 /\ adjacent_cache[q] = 0

\* C18: no mine is ever revealed.
NoMineRevealed == revealed \cap mines = {}

\* A game lost by a chord next to a wrong flag
NoMineRevealedWitness ==
    state = "LOST" /\ last.op = "auto_reveal_neighbors" /\ revealed # {}

\* C19: cell_states holds FLAGGED exactly for the flagged cells, REVEALED
\* exactly for the revealed cells, and HIDDEN for the others.
CellStatesAgree ==
    \A p \in Cells :
        cell_states[p] = IF p \in flags THEN "FLAGGED"
                         ELSE IF p \in revealed THEN "REVEALED"
                         ELSE "HIDDEN"

\* The calls that are handlers of the GUI
Handlers == {"left_click", "right_click", "double_click", "new_game"}

\* C15: when a handler of the GUI has run, and the game is WON or LOST or the
\* handler was new_game, no tick callback is scheduled.
NoTickAfterGameEnd ==
    (last.op \in Handlers /\ (state \in {"WON", "LOST"} \/ last.op = "new_game"))
        => pending = {}

\* C20: at most one tick callback is scheduled at any time, and a tick
\* callback changes neither the game state nor the revealed cells, the flags
\* or the mines.
OneTickScheduled ==
    /\ [](Cardinality(pending) <= 1)
    /\ [][last'.op = "tick" => UNCHANGED <<state, revealed, flags, mines>>]_vars

\* A tick that ran between two clicks of a game in play and scheduled the next
OneTickWitness ==
    /\ last.op = "tick"
    /\ state = "PLAYING"
    /\ Cardinality(revealed) >= 2
    /\ flags # {}
    /\ timer_job \in pending

\* C16: the loop of reveal_cell ends whatever element set.pop() returns, and
\* within a call no position is added to revealed twice: every pass takes an
\* element off the worklist or adds a new position to revealed, every
\* revealed.add makes revealed one larger, and the call returns.
FloodFillTerminates ==
    /\ [][ (pc = "fill" /\ pc' = "fill") =>
             \/ Cardinality(revealed') = Cardinality(revealed) + 1
             \/ /\ revealed' = revealed
                /\ Cardinality(worklist') < Cardinality(worklist) ]_vars
    /\ [](pc = "fill" => Cardinality(revealed) = fill_start + fill_adds)
    /\ [](worklist \subseteq Cells)
    /\ (pc = "fill" ~> pc = "idle")

\* A fill that has revealed several cells and has several more to take, in
\* a game where cells were revealed before the call
FloodFillTerminatesWitness ==
    /\ pc = "fill"
    /\ fill_start > 0
    /\ fill_adds >= 2
    /\ Cardinality(worklist) >= 2

====
